---- MODULE Spec2Model ----
(***************************************************************************)
(* Translate-SRT: the Cloud Function translateSRTFiles (src/index.js).     *)
(* One invocation downloads a SubRip text, classifies its lines, sends the *)
(* text lines to the translation backend in batches, merges the results,   *)
(* writes the text to /tmp, uploads it to the target bucket and deletes    *)
(* the local file.                                                         *)
(*                                                                         *)
(* Strings are sequences of one-character strings, so that split, join and *)
(* the two regular expressions are computed character by character.        *)
(***************************************************************************)
EXTENDS Integers, Sequences, FiniteSets, TLC

\* ------------------------------------------------------------------ bounds

\* Most lines of a downloaded text.
MaxLines == 3
\* MAX_SEGMENT_SIZE ranges over 1..MaxSegmentSize.
MaxSegmentSize == 2

\* --------------------------------------------------------------- constants

\* The batch size the source is shipped with.
MAX_SEGMENT_SIZE == 128
\* "2510 lines of text need translation" in the README's expected output.
ReadmeTextLines == 2510
\* "Performing 20 translation requests" in the README's expected output.
ReadmeRequests == 20

SOURCE_LANGUAGE == <<"e", "n">>
TARGET_LANGUAGE == <<"n", "l">>

\* ------------------------------------------------------------------ strings

Digits == {"0", "1", "2", "3", "4", "5", "6", "7", "8", "9"}

Min(a, b) == IF a < b THEN a ELSE b

\* Array.prototype.slice(start, end) on a 0-based array: end is not inclusive.
Slice(arr, start, end) == SubSeq(arr, start + 1, end)

\* The value JavaScript yields for an array element that does not exist.
Undefined == <<"undefined">>

\* String.prototype.split(/\n/): every segment between line feeds, the empty
\* ones and the trailing one included; a string without a line feed is one segment.
RECURSIVE Split(_)
Split(data) ==
    IF \E k \in 1..Len(data) : data[k] = "\n"
    THEN LET k == CHOOSE j \in 1..Len(data) :
                      /\ data[j] = "\n"
                      /\ \A h \in 1..(j - 1) : data[h] # "\n"
         IN  <<SubSeq(data, 1, k - 1)>> \o Split(SubSeq(data, k + 1, Len(data)))
    ELSE <<data>>

\* Array.prototype.join renders undefined as the empty string.
ToStringInJoin(element) == IF element = Undefined THEN <<>> ELSE element

\* Array.prototype.join('\n').
RECURSIVE Join(_)
Join(arr) ==
    IF arr = <<>> THEN <<>>
    ELSE IF Len(arr) = 1 THEN ToStringInJoin(arr[1])
    ELSE ToStringInJoin(arr[1]) \o <<"\n">> \o Join(Tail(arr))

\* /^\d+$/
REGEX_INDEX_LINE(element) ==
    /\ Len(element) >= 1
    /\ \A k \in 1..Len(element) : element[k] \in Digits

\* \d{2}:\d{2}:\d{2},\d{3}
ClockAt(element, at) ==
    /\ element[at] \in Digits /\ element[at + 1] \in Digits
    /\ element[at + 2] = ":"
    /\ element[at + 3] \in Digits /\ element[at + 4] \in Digits
    /\ element[at + 5] = ":"
    /\ element[at + 6] \in Digits /\ element[at + 7] \in Digits
    /\ element[at + 8] = ","
    /\ element[at + 9] \in Digits /\ element[at + 10] \in Digits
    /\ element[at + 11] \in Digits

\* /^\d{2}:\d{2}:\d{2},\d{3} --> \d{2}:\d{2}:\d{2},\d{3}$/
REGEX_TIMESTAMP_LINE(element) ==
    /\ Len(element) = 29
    /\ ClockAt(element, 1)
    /\ SubSeq(element, 13, 17) = <<" ", "-", "-", ">", " ">>
    /\ ClockAt(element, 18)

\* -------------------------------------------------------------- processData

NeedsTranslation(element) ==
    ~ (REGEX_INDEX_LINE(element) \/ REGEX_TIMESTAMP_LINE(element) \/ element = <<>>)

\* A forEach whose empty-line branch pushes on sentences only.
processElementWithoutBlankOutput(resultData, element, index) ==
    [ sentences    |-> Append(resultData.sentences, element),
      requestLines |-> IF NeedsTranslation(element)
                       THEN Append(resultData.requestLines, index)
                       ELSE resultData.requestLines,
      output       |-> IF element = <<>> THEN resultData.output
                       ELSE Append(resultData.output, element) ]

\* A forEach that requests a translation for every line that is not empty.
processElementRequestingNonBlank(resultData, element, index) ==
    [ sentences    |-> Append(resultData.sentences, element),
      requestLines |-> IF element # <<>>
                       THEN Append(resultData.requestLines, index)
                       ELSE resultData.requestLines,
      output       |-> Append(resultData.output, element) ]

\* One turn of processData's forEach: the line is pushed on sentences and on
\* output, and its 0-based index on requestLines when it is none of an index
\* line, a timestamp line and an empty line.
processElement(resultData, element, index) ==
    [ sentences    |-> Append(resultData.sentences, element),
      requestLines |-> IF NeedsTranslation(element)
                       THEN Append(resultData.requestLines, index)
                       ELSE resultData.requestLines,
      output       |-> Append(resultData.output, element) ]

RECURSIVE processLoop(_, _, _)
processLoop(resultData, arrData, index) ==
    IF index >= Len(arrData) THEN resultData
    ELSE processLoop(processElement(resultData, arrData[index + 1], index),
                     arrData, index + 1)

processData(data) ==
    processLoop([sentences |-> <<>>, requestLines |-> <<>>, output |-> <<>>],
                Split(data), 0)

\* content.sentences.filter(...): the texts sent for translation.
Filtered(sentences) == SelectSeq(sentences, NeedsTranslation)

\* ----------------------------------------------------------------- batching

\* The while loop that breaks the request up: one slice per translate call.
RECURSIVE SegmentLoop(_, _, _)
SegmentLoop(filtered, size, i) ==
    IF i < Len(filtered)
    THEN LET from == i
             to   == Min(Len(filtered) - 1, i + size - 1)
         IN  <<Slice(filtered, from, to + 1)>> \o SegmentLoop(filtered, size, i + size)
    ELSE <<>>

\* A loop that slices up to 'to' exclusive: slice(from, to).
RECURSIVE SegmentLoopWithoutPlusOne(_, _, _)
SegmentLoopWithoutPlusOne(filtered, size, i) ==
    IF i < Len(filtered)
    THEN LET from == i
             to   == Min(Len(filtered) - 1, i + size - 1)
         IN  <<Slice(filtered, from, to)>> \o SegmentLoopWithoutPlusOne(filtered, size, i + size)
    ELSE <<>>

SegmentsWithoutPlusOne(filtered, size) == SegmentLoopWithoutPlusOne(filtered, size, 0)

\* A dispatch that sends the first batch only.
SegmentsOnlyFirst(filtered, size) ==
    IF filtered = <<>> THEN <<>> ELSE <<Slice(filtered, 0, Min(Len(filtered), size))>>

Segments(filtered, size) == SegmentLoop(filtered, size, 0)

\* -------------------------------------------------------------------- merge

\* results.forEach(segment => translations = translations.concat(segment[0]))
RECURSIVE ConcatResults(_)
ConcatResults(results) ==
    IF results = <<>> THEN <<>>
    ELSE results[1] \o ConcatResults(Tail(results))

\* translations[i] of a 0-based array.
ElementAt(arr, i) == IF i + 1 \in DOMAIN arr THEN arr[i + 1] ELSE Undefined

\* A merge that writes the i-th translation to the i-th line: output[i] = translations[i].
MergeTranslationsByCallIndex(content, translations) ==
    [ content EXCEPT !.output =
        [ p \in DOMAIN content.output |->
            IF p \in DOMAIN content.requestLines
            THEN ElementAt(translations, p - 1)
            ELSE content.output[p] ] ]

\* content.requestLines.forEach((position, i) => content.output[position] = translations[i])
MergeTranslations(content, translations) ==
    [ content EXCEPT !.output =
        [ p \in DOMAIN content.output |->
            IF \E i \in DOMAIN content.requestLines : content.requestLines[i] = p - 1
            THEN LET i == CHOOSE j \in DOMAIN content.requestLines :
                              content.requestLines[j] = p - 1
                 IN  ElementAt(translations, i - 1)
            ELSE content.output[p] ] ]

\* ---------------------------------------------------------------- file names

\* String.prototype.replace(pattern, replacement) with a string pattern: the
\* first occurrence only.
ReplaceFirst(str, pattern, replacement) ==
    LET n    == Len(pattern)
        hits == {k \in 1..(Len(str) - n + 1) : SubSeq(str, k, k + n - 1) = pattern}
    IN  IF hits = {} THEN str
        ELSE LET k == CHOOSE h \in hits : \A g \in hits : h <= g
             IN  SubSeq(str, 1, k - 1) \o replacement \o SubSeq(str, k + n, Len(str))

\* path.parse(name).base: what follows the last "/", trailing slashes dropped.
RECURSIVE PathBase(_)
PathBase(name) ==
    IF name # <<>> /\ name[Len(name)] = "/" THEN PathBase(SubSeq(name, 1, Len(name) - 1))
    ELSE LET slashes == {k \in 1..Len(name) : name[k] = "/"}
         IN  IF slashes = {} THEN name
             ELSE LET k == CHOOSE h \in slashes : \A g \in slashes : g <= h
                  IN  SubSeq(name, k + 1, Len(name))

\* const translatedFilename = path.parse(file.name).base.replace(`-en`, `-nl`)
translatedFilename(name) ==
    ReplaceFirst(PathBase(name), <<"-">> \o SOURCE_LANGUAGE, <<"-">> \o TARGET_LANGUAGE)

\* let localFilename = `/tmp/${translatedFilename}`
localFilename(name) == <<"/", "t", "m", "p", "/">> \o translatedFilename(name)

\* ------------------------------------------------------------- environment

SampleName      == <<"s", "-", "e", "n">>
SampleInFolder  == <<"d", "/", "s", "-", "e", "n">>
OtherName       == <<"t", "-", "e", "n">>
\* An object whose name holds the source-language token twice, before an
\* extension ("a-en-en.t").
SuffixTwiceName == <<"a", "-", "e", "n", "-", "e", "n", ".", "t">>

BlankLine     == <<>>
IndexLine     == <<"1">>
TimestampLine == <<"0", "0", ":", "0", "0", ":", "0", "1", ",", "0", "0", "0",
                   " ", "-", "-", ">", " ",
                   "0", "0", ":", "0", "0", ":", "0", "2", ",", "0", "0", "0">>
TextLine      == <<"H", "i">>
DigitTextLine == <<"1", "a">>

LineSamples == {BlankLine, IndexLine, TimestampLine, TextLine, DigitTextLine}

\* The texts an object of the source bucket may hold: up to n lines.
RECURSIVE LineLists(_)
LineLists(n) ==
    IF n = 0 THEN {<<>>}
    ELSE LET shorter == LineLists(n - 1)
         IN  shorter \cup {Append(l, e) : l \in {x \in shorter : Len(x) = n - 1},
                                          e \in LineSamples}

Texts(n) == {Join(l) : l \in LineLists(n) \ {<<>>}}

\* The backend's translation of one text.
Translation(text) == text \o <<"*">>

\* What one translate call may resolve with (segment[0]): the translations in
\* the order of the texts, the texts unchanged, or one item too few.
Responses(texts) ==
    LET translated == [k \in DOMAIN texts |-> Translation(texts[k])]
    IN  { translated,
          texts,
          SubSeq(translated, 1, Len(translated) - 1) }

\* Rejection reasons.
NoReason                == <<>>
DownloadError           == <<"download error">>
CouldNotReadData        == <<"Could not read data">>
TranslateError(b)       == <<"translate error", b>>
TranslationsFailed(err) == <<"One or more translations failed", err>>
WriteError              == <<"write error">>
UploadError             == <<"upload error">>
UnlinkError             == <<"unlink error">>

\* -------------------------------------------------------------------- state

VARIABLES
    events,        \* the events delivered, one invocation each
    objects,       \* the source bucket: object name -> text
    segmentSize,   \* MAX_SEGMENT_SIZE of this deployment
    pc,            \* where each invocation's promise chain stands
    content,       \* processData's structure, per invocation
    calls,         \* the translate calls issued, in order: the texts of each
    promises,      \* the promise of each translate call
    reason,        \* what the returned promise rejected with
    started,       \* how often each I/O operation was started
    outcome,       \* how each I/O operation settled
    localFiles,    \* /tmp: path -> text
    targetBucket,  \* the target bucket: destination -> text
    uploaded       \* the texts each invocation's upload stored

vars == <<events, objects, segmentSize, pc, content, calls, promises, reason,
          started, outcome, localFiles, targetBucket, uploaded>>

Invocations == DOMAIN events

NoContent == [sentences |-> <<>>, requestLines |-> <<>>, output |-> <<>>]
NoneStarted == [download |-> 0, write |-> 0, upload |-> 0, unlink |-> 0]
NoneSettled == [download |-> "none", write |-> "none", upload |-> "none", unlink |-> "none"]
Pending == [state |-> "pending", value |-> <<>>, order |-> 0]

\* ------------------------------------------------------------- promise chain

\* A check that takes the empty string for usable: data !== undefined.
UsableDataUnlessUndefined(data) == data # Undefined

\* if (data) ...: a download that yielded nothing, or the empty string, is not
\* usable.
UsableData(data) == data # Undefined /\ data # <<>>

\* A join that waits for every call and never rejects.
PromiseAllNeverRejecting(ps) ==
    IF \A b \in DOMAIN ps : ps[b].state # "pending" THEN "fulfilled" ELSE "pending"

\* A join that drops a rejection: it stays pending once a call is rejected.
PromiseAllDroppingRejection(ps) ==
    IF \A b \in DOMAIN ps : ps[b].state = "fulfilled" THEN "fulfilled" ELSE "pending"

\* A join that never settles when there is no call to wait for.
PromiseAllPendingWithoutCalls(ps) ==
    IF \E b \in DOMAIN ps : ps[b].state = "rejected" THEN "rejected"
    ELSE IF ps # <<>> /\ \A b \in DOMAIN ps : ps[b].state = "fulfilled" THEN "fulfilled"
    ELSE "pending"

\* A join that is fulfilled by the first call that is.
PromiseAllFulfilledByFirst(ps) ==
    IF \E b \in DOMAIN ps : ps[b].state = "rejected" THEN "rejected"
    ELSE IF ps = <<>> \/ \E b \in DOMAIN ps : ps[b].state = "fulfilled" THEN "fulfilled"
    ELSE "pending"

\* Promise.all over the translate calls: rejected as soon as one call is,
\* fulfilled once every call is (at once when there is no call).
PromiseAll(ps) ==
    IF \E b \in DOMAIN ps : ps[b].state = "rejected" THEN "rejected"
    ELSE IF \A b \in DOMAIN ps : ps[b].state = "fulfilled" THEN "fulfilled"
    ELSE "pending"

\* The results in the order in which the calls settled.
ResultsInCompletionOrder(ps) ==
    [n \in DOMAIN ps |-> ps[CHOOSE b \in DOMAIN ps : ps[b].order = n].value]

\* The results Promise.all hands on: one per call, in the order of the calls.
ResultsOf(ps) == [b \in DOMAIN ps |-> ps[b].value]

\* The .then of Promise.all: the translations are put into the output lines.
MergeResults(c, ps) == MergeTranslations(c, ConcatResults(ResultsOf(ps)))

\* An upload without its own catch: the error reaches the final catch.
AfterUploadErrorRejecting == [pc |-> "rejected", reason |-> UploadError]

\* .catch(err => { console.error('Error uploading ...', err); }) swallows the
\* upload's error: the chain goes on to delete the local file.
AfterUploadError == [pc |-> "unlink", reason |-> NoReason]

NumSettled(ps) == Cardinality({b \in DOMAIN ps : ps[b].state # "pending"})

Start(inv, op) == [started EXCEPT ![inv][op] = @ + 1]

Settle(inv, op, how) == [outcome EXCEPT ![inv][op] = how]

\* exports.translateSRTFiles up to file.download(): the two event checks log
\* and fall through; an event without a name makes path.parse throw.
Invoke(inv) ==
    /\ pc[inv] = "idle"
    /\ IF events[inv].name = Undefined
       THEN /\ pc' = [pc EXCEPT ![inv] = "thrown"]
            /\ UNCHANGED started
       ELSE /\ pc' = [pc EXCEPT ![inv] = "download"]
            /\ started' = Start(inv, "download")
    /\ UNCHANGED <<events, outcome, objects, segmentSize, content, calls, promises, reason,
                   localFiles, targetBucket, uploaded>>

\* A failed download that is started again.
DownloadFailsRetrying(inv) ==
    /\ pc[inv] = "download"
    /\ started' = Start(inv, "download")
    /\ outcome' = Settle(inv, "download", "failed")
    /\ UNCHANGED <<events, objects, segmentSize, pc, content, calls, promises, reason,
                   localFiles, targetBucket, uploaded>>

\* file.download() rejects: the final catch logs and rejects with the error.
DownloadFails(inv) ==
    /\ pc[inv] = "download"
    /\ pc' = [pc EXCEPT ![inv] = "rejected"]
    /\ reason' = [reason EXCEPT ![inv] = DownloadError]
    /\ outcome' = Settle(inv, "download", "failed")
    /\ UNCHANGED <<events, objects, segmentSize, content, calls, promises, started,
                   localFiles, targetBucket, uploaded>>

\* file.download() resolves with nothing, or with the object's text, which is
\* the empty string for an empty object: 'Could not read data'.
DownloadUnusable(inv) ==
    /\ pc[inv] = "download"
    /\ \E data \in {Undefined, objects[events[inv].name]} :
           /\ ~ UsableData(data)
           /\ outcome' = Settle(inv, "download", IF data = Undefined THEN "nothing" ELSE "data")
           /\ pc' = [pc EXCEPT ![inv] = "rejected"]
           /\ reason' = [reason EXCEPT ![inv] = CouldNotReadData]
    /\ UNCHANGED <<events, objects, segmentSize, content, calls, promises, started,
                   localFiles, targetBucket, uploaded>>

\* file.download() resolves with the object's text: processData, the filter,
\* and one translate call per slice, all issued before any result is awaited.
\* With no text line there is no call, Promise.all([]) resolves and the chain
\* goes straight to fs.writeFile.
DownloadResolves(inv) ==
    /\ pc[inv] = "download"
    /\ LET data     == objects[events[inv].name]
           c        == processData(data)
           filtered == Filtered(c.sentences)
           segs     == Segments(filtered, segmentSize)
           ps       == [b \in DOMAIN segs |-> Pending]
       IN  /\ UsableData(data)
           /\ calls' = [calls EXCEPT ![inv] = segs]
           /\ promises' = [promises EXCEPT ![inv] = ps]
           /\ IF PromiseAll(ps) = "fulfilled"
              THEN /\ content' = [content EXCEPT ![inv] = MergeResults(c, ps)]
                   /\ pc' = [pc EXCEPT ![inv] = "write"]
                   /\ started' = Start(inv, "write")
              ELSE /\ content' = [content EXCEPT ![inv] = c]
                   /\ pc' = [pc EXCEPT ![inv] = "translate"]
                   /\ UNCHANGED started
    /\ outcome' = Settle(inv, "download", "data")
    /\ UNCHANGED <<events, objects, segmentSize, reason, localFiles, targetBucket,
                   uploaded>>

\* One translate call resolves. When it is the last one, Promise.all resolves:
\* the results are merged and the file is written. After Promise.all has
\* rejected, the calls still outstanding settle unobserved.
BatchFulfils(inv, b) ==
    /\ b \in DOMAIN promises[inv]
    /\ promises[inv][b].state = "pending"
    /\ \E r \in Responses(calls[inv][b]) :
         LET ps == [promises[inv] EXCEPT
                      ![b] = [state |-> "fulfilled", value |-> r,
                              order |-> NumSettled(promises[inv]) + 1]]
         IN  /\ promises' = [promises EXCEPT ![inv] = ps]
             /\ IF pc[inv] = "translate" /\ PromiseAll(ps) = "fulfilled"
                THEN /\ content' = [content EXCEPT ![inv] = MergeResults(content[inv], ps)]
                     /\ pc' = [pc EXCEPT ![inv] = "write"]
                     /\ started' = Start(inv, "write")
                ELSE UNCHANGED <<content, pc, started>>
    /\ UNCHANGED <<events, outcome, objects, segmentSize, calls, reason, localFiles,
                   targetBucket, uploaded>>

\* One translate call rejects. The first rejection rejects Promise.all: its
\* catch rejects with 'One or more translations failed (err)', which the final
\* catch hands on.
BatchRejects(inv, b) ==
    /\ b \in DOMAIN promises[inv]
    /\ promises[inv][b].state = "pending"
    /\ LET ps == [promises[inv] EXCEPT
                    ![b] = [state |-> "rejected", value |-> TranslateError(b),
                            order |-> NumSettled(promises[inv]) + 1]]
       IN  /\ promises' = [promises EXCEPT ![inv] = ps]
           /\ IF pc[inv] = "translate" /\ PromiseAll(ps) = "rejected"
              THEN /\ pc' = [pc EXCEPT ![inv] = "rejected"]
                   /\ reason' = [reason EXCEPT ![inv] =
                                    TranslationsFailed(TranslateError(b))]
              ELSE UNCHANGED <<pc, reason>>
    /\ UNCHANGED <<events, outcome, objects, segmentSize, content, calls, started, localFiles,
                   targetBucket, uploaded>>

\* fs.writeFile calls back without an error: the joined output is in the local
\* file, and the upload starts.
WriteSucceeds(inv) ==
    /\ pc[inv] = "write"
    /\ LET path == localFilename(events[inv].name)
       IN  localFiles' = [f \in DOMAIN localFiles \cup {path} |->
                            IF f = path THEN Join(content[inv].output) ELSE localFiles[f]]
    /\ pc' = [pc EXCEPT ![inv] = "upload"]
    /\ started' = Start(inv, "upload")
    /\ outcome' = Settle(inv, "write", "ok")
    /\ UNCHANGED <<events, objects, segmentSize, content, calls, promises, reason,
                   targetBucket, uploaded>>

\* A write failure that is only logged: the chain goes on to the upload.
WriteFailsThenUploads(inv) ==
    /\ pc[inv] = "write"
    /\ pc' = [pc EXCEPT ![inv] = "upload"]
    /\ started' = Start(inv, "upload")
    /\ outcome' = Settle(inv, "write", "failed")
    /\ UNCHANGED <<events, objects, segmentSize, content, calls, promises, reason,
                   localFiles, targetBucket, uploaded>>

\* fs.writeFile calls back with an error.
WriteFails(inv) ==
    /\ pc[inv] = "write"
    /\ pc' = [pc EXCEPT ![inv] = "rejected"]
    /\ reason' = [reason EXCEPT ![inv] = WriteError]
    /\ outcome' = Settle(inv, "write", "failed")
    /\ UNCHANGED <<events, objects, segmentSize, content, calls, promises, started,
                   localFiles, targetBucket, uploaded>>

\* The upload stores what the local file holds under the translated name; the
\* local file is deleted next.
UploadSucceeds(inv) ==
    /\ pc[inv] = "upload"
    /\ LET path == localFilename(events[inv].name)
           dest == translatedFilename(events[inv].name)
       IN  /\ path \in DOMAIN localFiles
           /\ targetBucket' = [d \in DOMAIN targetBucket \cup {dest} |->
                                 IF d = dest THEN localFiles[path] ELSE targetBucket[d]]
           /\ uploaded' = [uploaded EXCEPT ![inv] = Append(@, localFiles[path])]
    /\ pc' = [pc EXCEPT ![inv] = "unlink"]
    /\ started' = Start(inv, "unlink")
    /\ outcome' = Settle(inv, "upload", "ok")
    /\ UNCHANGED <<events, objects, segmentSize, content, calls, promises, reason,
                   localFiles>>

\* The upload fails (the service, or a local file that is gone): its catch
\* logs the error.
UploadFails(inv) ==
    /\ pc[inv] = "upload"
    /\ pc' = [pc EXCEPT ![inv] = AfterUploadError.pc]
    /\ reason' = [reason EXCEPT ![inv] = AfterUploadError.reason]
    /\ started' = IF AfterUploadError.pc = "unlink" THEN Start(inv, "unlink") ELSE started
    /\ outcome' = Settle(inv, "upload", "failed")
    /\ UNCHANGED <<events, objects, segmentSize, content, calls, promises, localFiles,
                   targetBucket, uploaded>>

\* fs.unlink calls back without an error: 'Finished.'
UnlinkSucceeds(inv) ==
    /\ pc[inv] = "unlink"
    /\ LET path == localFilename(events[inv].name)
       IN  /\ path \in DOMAIN localFiles
           /\ localFiles' = [f \in DOMAIN localFiles \ {path} |-> localFiles[f]]
    /\ pc' = [pc EXCEPT ![inv] = "resolved"]
    /\ outcome' = Settle(inv, "unlink", "ok")
    /\ UNCHANGED <<events, objects, segmentSize, content, calls, promises, reason,
                   started, targetBucket, uploaded>>

\* fs.unlink calls back with an error (always so when the file is gone).
UnlinkFails(inv) ==
    /\ pc[inv] = "unlink"
    /\ pc' = [pc EXCEPT ![inv] = "rejected"]
    /\ reason' = [reason EXCEPT ![inv] = UnlinkError]
    /\ outcome' = Settle(inv, "unlink", "failed")
    /\ UNCHANGED <<events, objects, segmentSize, content, calls, promises, started,
                   localFiles, targetBucket, uploaded>>

Next ==
    \/ \E inv \in Invocations : Invoke(inv)
    \/ \E inv \in Invocations : DownloadFails(inv)
    \/ \E inv \in Invocations : DownloadUnusable(inv)
    \/ \E inv \in Invocations : DownloadResolves(inv)
    \/ \E inv \in Invocations : \E b \in DOMAIN promises[inv] : BatchFulfils(inv, b)
    \/ \E inv \in Invocations : \E b \in DOMAIN promises[inv] : BatchRejects(inv, b)
    \/ \E inv \in Invocations : WriteSucceeds(inv)
    \/ \E inv \in Invocations : WriteFails(inv)
    \/ \E inv \in Invocations : UploadSucceeds(inv)
    \/ \E inv \in Invocations : UploadFails(inv)
    \/ \E inv \in Invocations : UnlinkSucceeds(inv)
    \/ \E inv \in Invocations : UnlinkFails(inv)

\* ------------------------------------------------------------ specifications

\* The state after the events were delivered and before any handler ran.
InitWith(deliveries, texts) ==
    /\ events \in deliveries
    /\ objects \in [{events[i].name : i \in DOMAIN events} \ {Undefined} -> texts]
    /\ segmentSize \in 1..MaxSegmentSize
    /\ pc = [inv \in DOMAIN events |-> "idle"]
    /\ content = [inv \in DOMAIN events |-> NoContent]
    /\ calls = [inv \in DOMAIN events |-> <<>>]
    /\ promises = [inv \in DOMAIN events |-> <<>>]
    /\ reason = [inv \in DOMAIN events |-> NoReason]
    /\ started = [inv \in DOMAIN events |-> NoneStarted]
    /\ outcome = [inv \in DOMAIN events |-> NoneSettled]
    /\ localFiles = <<>>
    /\ targetBucket = <<>>
    /\ uploaded = [inv \in DOMAIN events |-> <<>>]

\* One event for a new object, or one without a name; the object holds any
\* text of up to MaxLines lines.
SingleEvents ==
    { <<[name |-> SampleName, resourceState |-> "exists"]>>,
      <<[name |-> Undefined, resourceState |-> "exists"]>> }

Init == InitWith(SingleEvents, Texts(MaxLines))

Spec == Init /\ [][Next]_vars

\* Every external call that is outstanding eventually settles: the platform
\* runs the function for the event, and the download, the translate calls, the
\* local write, the upload and the local delete each call back or settle.
DownloadSettles ==
    \E inv \in Invocations :
        DownloadFails(inv) \/ DownloadUnusable(inv) \/ DownloadResolves(inv)

BatchSettles ==
    \E inv \in Invocations : \E b \in DOMAIN promises[inv] :
        BatchFulfils(inv, b) \/ BatchRejects(inv, b)

WriteSettles == \E inv \in Invocations : WriteSucceeds(inv) \/ WriteFails(inv)

UploadSettles == \E inv \in Invocations : UploadSucceeds(inv) \/ UploadFails(inv)

UnlinkSettles == \E inv \in Invocations : UnlinkSucceeds(inv) \/ UnlinkFails(inv)

EveryCallSettles ==
    /\ WF_vars(\E inv \in Invocations : Invoke(inv))
    /\ WF_vars(DownloadSettles)
    /\ WF_vars(BatchSettles)
    /\ WF_vars(WriteSettles)
    /\ WF_vars(UploadSettles)
    /\ WF_vars(UnlinkSettles)

\* For the question whether an invocation ends, a line counts only as a text
\* or not: the objects hold index lines and text lines.
FairTexts ==
    { Join(l) : l \in { k \in LineLists(MaxLines) \ {<<>>} :
                            \A i \in DOMAIN k : k[i] \in {IndexLine, TextLine} } }

InitFair == InitWith(SingleEvents, FairTexts)

SpecFair == InitFair /\ [][Next]_vars /\ EveryCallSettles

\* One event of any kind: a new object, a deleted one, or an event without a
\* name, each with either resource state; the object holds a one-line text.
AnyEvents ==
    { <<[name |-> n, resourceState |-> r]>> :
        n \in {SampleName, SampleInFolder, SuffixTwiceName, Undefined},
        r \in {"exists", "not_exists"} }

InitEvents == InitWith(AnyEvents, Texts(1))

SpecEvents == InitEvents /\ [][Next]_vars

\* Two events whose invocations overlap: the same object twice, two objects of
\* the same base name, or two objects of different base names.
OverlapNames == {SampleName, SampleInFolder, OtherName}

OverlapEvents ==
    { <<[name |-> a, resourceState |-> "exists"], [name |-> b, resourceState |-> "exists"]>> :
        a \in OverlapNames, b \in OverlapNames }

OverlapTexts == {TextLine, DigitTextLine}

InitOverlap == InitWith(OverlapEvents, OverlapTexts)

SpecOverlap == InitOverlap /\ [][Next]_vars

\* ------------------------------------------------------------------- claims

Ignored(inv) ==
    events[inv].resourceState = "not_exists" \/ events[inv].name = Undefined

\* C1: for an event whose resourceState is 'not_exists' or whose name is
\* absent nothing is started: no download, no translate call, no local write,
\* no upload and no local delete.
C1_IgnoredEventsStartNothing ==
    \A inv \in Invocations :
        Ignored(inv) => started[inv] = NoneStarted /\ calls[inv] = <<>>

Rejected(ps) == {b \in DOMAIN ps : ps[b].state = "rejected"}

FirstRejected(ps) ==
    CHOOSE b \in Rejected(ps) : \A c \in Rejected(ps) : ps[b].order <= ps[c].order

\* C2: once a translate call has failed, the invocation is rejected with a
\* reason that holds the error of that call, nothing was written, uploaded or
\* deleted, and the output lines are still the original lines, whatever the
\* order in which the calls settle.
C2_FailedBatchFailsAll ==
    \A inv \in Invocations :
        Rejected(promises[inv]) # {} =>
            /\ pc[inv] = "rejected"
            /\ reason[inv] =
                 TranslationsFailed(promises[inv][FirstRejected(promises[inv])].value)
            /\ started[inv].write = 0 /\ started[inv].upload = 0
            /\ started[inv].unlink = 0
            /\ uploaded[inv] = <<>>
            /\ localFilename(events[inv].name) \notin DOMAIN localFiles
            /\ content[inv].output = content[inv].sentences

\* A call dispatched first fails after a call dispatched later has succeeded,
\* and a third call succeeds after the failure.
C2_Witness ==
    \E inv \in Invocations :
        \E b, c, d \in DOMAIN promises[inv] :
            /\ b < c
            /\ promises[inv][b].state = "rejected"
            /\ promises[inv][c].state = "fulfilled"
            /\ promises[inv][d].state = "fulfilled"
            /\ promises[inv][c].order < promises[inv][b].order
            /\ promises[inv][b].order < promises[inv][d].order
            /\ pc[inv] = "rejected"

\* The translation phase has succeeded: Promise.all resolved and merged.
Merged(inv) == started[inv].write > 0

\* Every call returned a list as long as its input, each item the translation
\* of the text at the same place, or that text itself.
OrderPreservingBackend(inv) ==
    \A b \in DOMAIN promises[inv] :
        /\ promises[inv][b].state = "fulfilled"
        /\ Len(promises[inv][b].value) = Len(calls[inv][b])
        /\ \A k \in DOMAIN calls[inv][b] :
               promises[inv][b].value[k] \in
                   {calls[inv][b][k], Translation(calls[inv][b][k])}

AllTranslated(inv) ==
    \A b \in DOMAIN promises[inv] :
        promises[inv][b].value = [k \in DOMAIN calls[inv][b] |-> Translation(calls[inv][b][k])]

\* C3: when every call succeeds with a list of the length and order of its
\* input, each text line receives the backend's result for its own text, for
\* every order in which the calls settle.
C3_MergeInDispatchOrder ==
    \A inv \in Invocations :
        Merged(inv) /\ OrderPreservingBackend(inv) =>
            \A i \in DOMAIN content[inv].requestLines :
                LET position == content[inv].requestLines[i] + 1
                    own      == content[inv].sentences[position]
                IN  /\ content[inv].output[position] \in {own, Translation(own)}
                    /\ AllTranslated(inv) =>
                           content[inv].output[position] = Translation(own)

\* Two calls for different texts, the second settled before the first.
C3_Witness ==
    \E inv \in Invocations :
        /\ Merged(inv) /\ OrderPreservingBackend(inv) /\ AllTranslated(inv)
        /\ Len(promises[inv]) >= 2
        /\ promises[inv][2].order < promises[inv][1].order
        /\ calls[inv][1] # calls[inv][2]

\* The text the invocation downloaded.
Downloaded(inv) == objects[events[inv].name]

\* Every call returned its input unchanged.
IdentityBackend(inv) ==
    \A b \in DOMAIN promises[inv] :
        promises[inv][b].state = "fulfilled" /\ promises[inv][b].value = calls[inv][b]

\* The empty text, taken as a text of one empty line, comes back empty.
C4_EmptyText == Join(processData(<<>>).output) = <<>>

\* C4: with a backend that returns every text unchanged, the joined output,
\* the local file written from it and the object uploaded from that file are
\* the downloaded text, for every batch size and every order in which the
\* calls settle.
C4_RoundTripIdentity ==
    \A inv \in Invocations :
        Merged(inv) /\ IdentityBackend(inv) =>
            /\ C4_EmptyText
            /\ Join(content[inv].output) = Downloaded(inv)
            /\ pc[inv] \in {"upload", "unlink"} =>
                   localFiles[localFilename(events[inv].name)] = Downloaded(inv)
            /\ \A k \in DOMAIN uploaded[inv] : uploaded[inv][k] = Downloaded(inv)

\* A text with text lines and other lines (an empty one among them), sent in
\* two calls of which the second settled first, written and uploaded.
C4_Witness ==
    \E inv \in Invocations :
        /\ Merged(inv) /\ IdentityBackend(inv)
        /\ Len(promises[inv]) >= 2
        /\ promises[inv][2].order < promises[inv][1].order
        /\ \E p \in DOMAIN content[inv].sentences : content[inv].sentences[p] = <<>>
        /\ uploaded[inv] # <<>>

Sizes(segs) == [b \in DOMAIN segs |-> Len(segs[b])]

\* The partition law for a sequence and the slices made of it.
PartitionLaw(sequence, segs, size) ==
    /\ ConcatResults(segs) = sequence
    /\ Len(segs) = (Len(sequence) + size - 1) \div size
    /\ \A b \in DOMAIN segs :
           /\ 1 <= Len(segs[b]) /\ Len(segs[b]) <= size
           /\ b < Len(segs) => Len(segs[b]) = size
           /\ segs[b] = SubSeq(sequence, (b - 1) * size + 1,
                               (b - 1) * size + Len(segs[b]))

\* 2510 lines in batches of 128 are 20 requests.
C6_ReadmeExample ==
    LET lines == [k \in 1..ReadmeTextLines |-> k]
    IN  /\ Len(Segments(lines, MAX_SEGMENT_SIZE)) = ReadmeRequests
        /\ PartitionLaw(lines, Segments(lines, MAX_SEGMENT_SIZE), MAX_SEGMENT_SIZE)

\* 5 lines in batches of 2 are batches of 2, 2 and 1.
C6_ScenarioC == Sizes(Segments(<<1, 2, 3, 4, 5>>, 2)) = <<2, 2, 1>>

\* C6: the translate calls issued are a partition of the text lines into
\* contiguous slices in order: none empty, none longer than the batch size,
\* all but the last of exactly that size, ceil(N/M) of them, their
\* concatenation the text lines.
C6_BatchesPartitionRequest ==
    /\ C6_ReadmeExample
    /\ C6_ScenarioC
    /\ \A inv \in Invocations :
           content[inv] # NoContent =>
               PartitionLaw(Filtered(content[inv].sentences), calls[inv], segmentSize)

\* Three text lines sent in a call of two and a call of one.
C6_Witness ==
    \E inv \in Invocations :
        /\ outcome[inv].download = "data"
        /\ segmentSize = 2
        /\ Sizes(calls[inv]) = <<2, 1>>

\* C7 as stated: whenever the returned promise is rejected, no upload of the
\* invocation has succeeded.
C7_RejectedWithoutArtifact ==
    \A inv \in Invocations :
        pc[inv] = "rejected" => uploaded[inv] = <<>>

\* C7, amended: whenever the returned promise is rejected for another reason
\* than the failed deletion of the local file, no upload was started for the
\* invocation.
C7_RejectedBeforeUploadWithoutArtifact ==
    \A inv \in Invocations :
        pc[inv] = "rejected" /\ reason[inv] # UnlinkError =>
            started[inv].upload = 0 /\ uploaded[inv] = <<>>

\* The local write failed after a successful translation phase.
C7_Witness ==
    \E inv \in Invocations :
        /\ pc[inv] = "rejected" /\ reason[inv] = WriteError
        /\ outcome[inv].write = "failed"
        /\ Len(calls[inv]) >= 1

\* C8: a download that resolves with nothing or with the empty string ends
\* the invocation rejected with 'Could not read data'; no translate call, no
\* local write, no upload and no local delete is started.
C8_UnusableDownloadAborts ==
    \A inv \in Invocations :
        (\/ outcome[inv].download = "nothing"
         \/ outcome[inv].download = "data" /\ Downloaded(inv) = <<>>) =>
            /\ pc[inv] = "rejected"
            /\ reason[inv] = CouldNotReadData
            /\ calls[inv] = <<>>
            /\ content[inv] = NoContent
            /\ started[inv] = [NoneStarted EXCEPT !.download = 1]
            /\ uploaded[inv] = <<>>
            /\ localFiles = <<>>

\* The object is empty and its download has resolved.
C8_Witness ==
    \E inv \in Invocations :
        /\ outcome[inv].download = "data" /\ Downloaded(inv) = <<>>
        /\ pc[inv] = "rejected"

\* C9: after a failed upload the local delete is started, and once it has
\* succeeded the invocation is resolved, not rejected.
C9_UploadFailureOnlyLogged ==
    \A inv \in Invocations :
        outcome[inv].upload = "failed" =>
            /\ started[inv].unlink = 1
            /\ outcome[inv].unlink = "none" => pc[inv] = "unlink"
            /\ outcome[inv].unlink = "ok" =>
                   pc[inv] = "resolved" /\ reason[inv] = NoReason

\* The upload failed, the delete succeeded.
C9_Witness ==
    \E inv \in Invocations :
        /\ outcome[inv].upload = "failed"
        /\ outcome[inv].unlink = "ok"
        /\ pc[inv] = "resolved"

\* The invocation has a write, an upload or a delete of its local file under way.
UsesLocalFile(inv) == pc[inv] \in {"write", "upload", "unlink"}

\* No two invocations use the same local path at the same time.
C10_DisjointPaths ==
    \A i, j \in Invocations :
        i # j /\ UsesLocalFile(i) /\ UsesLocalFile(j) =>
            localFilename(events[i].name) # localFilename(events[j].name)

\* What an invocation uploads is its own output.
C10_UploadsOwnOutput ==
    \A inv \in Invocations :
        \A k \in DOMAIN uploaded[inv] : uploaded[inv][k] = Join(content[inv].output)

\* C10: the local file of an invocation is private to it: no other invocation
\* under way uses its path, so what it uploads is what it wrote.
C10_LocalFilePrivate == C10_DisjointPaths /\ C10_UploadsOwnOutput

\* ---- C11: the output file name ----

\* The base name with its last "-en" replaced by "-nl": for a base name
\* X + "-en" + ext, with no "-en" inside ext, this is X + "-nl" + ext.
SuffixReplaced(base) ==
    LET from == <<"-">> \o SOURCE_LANGUAGE
        n    == Len(from)
        hits == {k \in 1..(Len(base) - n + 1) : SubSeq(base, k, k + n - 1) = from}
    IN  IF hits = {} THEN base
        ELSE LET k == CHOOSE h \in hits : \A g \in hits : g <= h
             IN  SubSeq(base, 1, k - 1) \o <<"-">> \o TARGET_LANGUAGE
                    \o SubSeq(base, k + n, Len(base))

\* C11: every upload is stored under the object's base name with the
\* source-language suffix token "-en" replaced by "-nl": a base name
\* X + "-en" + ext gives X + "-nl" + ext, also when X itself contains "-en".
C11_SuffixTokenReplaced ==
    \A inv \in Invocations :
        outcome[inv].upload = "ok" =>
            /\ SuffixReplaced(PathBase(events[inv].name)) \in DOMAIN targetBucket
            /\ translatedFilename(events[inv].name) = SuffixReplaced(PathBase(events[inv].name))

\* ---- C12: lines without a supplied translation ----

\* The number of translations the backend supplied, over all calls.
Supplied(inv) == Len(ConcatResults(ResultsOf(promises[inv])))

\* C12: after the merge, every text line for which the backend supplied no
\* translation (fewer items returned than requested) carries its untranslated
\* original text in the output, not an empty or missing value.
C12_MissingTranslationKeepsOriginal ==
    \A inv \in Invocations :
        Merged(inv) =>
            \A i \in DOMAIN content[inv].requestLines :
                i > Supplied(inv) =>
                    LET position == content[inv].requestLines[i] + 1
                    IN  /\ content[inv].output[position] = content[inv].sentences[position]
                        /\ Split(Join(content[inv].output))[position]
                              = content[inv].sentences[position]

\* ---- C13: the translation phase and the calls still outstanding ----

Outstanding(inv) == {b \in DOMAIN promises[inv] : promises[inv][b].state = "pending"}

BatchCount(n, size) == (n + size - 1) \div size

\* C14: once the download has been processed, exactly one translate call has
\* been issued per batch, in batch order (the b-th call carries the b-th run
\* of at most segmentSize texts), every call has its own promise, and as long
\* as no result has been consumed (no call has settled) all of them are
\* outstanding together.
C14_OneCallPerBatchIssuedTogether ==
    \A inv \in Invocations :
        outcome[inv].download = "data" /\ content[inv] # NoContent =>
            LET texts == Filtered(content[inv].sentences)
            IN  /\ Len(calls[inv]) = BatchCount(Len(texts), segmentSize)
                /\ DOMAIN promises[inv] = DOMAIN calls[inv]
                /\ \A b \in DOMAIN calls[inv] :
                     calls[inv][b] =
                        SubSeq(texts, (b - 1) * segmentSize + 1,
                               Min(b * segmentSize, Len(texts)))
                /\ NumSettled(promises[inv]) = 0 =>
                     Outstanding(inv) = 1..BatchCount(Len(texts), segmentSize)

\* Three calls are outstanding at the same time.
C14_Witness ==
    \E inv \in Invocations :
        /\ Len(calls[inv]) = 3
        /\ Outstanding(inv) = {1, 2, 3}
        /\ pc[inv] = "translate"

\* ---- C15: a failed stage stops the chain, except the upload ----

NothingAfterDownload(inv) ==
    /\ calls[inv] = <<>>
    /\ started[inv].write = 0 /\ started[inv].upload = 0 /\ started[inv].unlink = 0

\* C15: when the download, the translation phase, the local write or the local
\* delete fails, no later stage is started and the invocation is rejected with
\* that failure; a failed upload alone lets the chain go on to the delete.
C15_FailureStopsChainExceptUpload ==
    \A inv \in Invocations :
        /\ outcome[inv].download = "failed" =>
             /\ pc[inv] = "rejected" /\ reason[inv] = DownloadError
             /\ NothingAfterDownload(inv)
        /\ Rejected(promises[inv]) # {} =>
             /\ pc[inv] = "rejected"
             /\ \E b \in Rejected(promises[inv]) :
                  reason[inv] = TranslationsFailed(promises[inv][b].value)
             /\ started[inv].write = 0 /\ started[inv].upload = 0
             /\ started[inv].unlink = 0
        /\ outcome[inv].write = "failed" =>
             /\ pc[inv] = "rejected" /\ reason[inv] = WriteError
             /\ started[inv].upload = 0 /\ started[inv].unlink = 0
        /\ outcome[inv].unlink = "failed" =>
             pc[inv] = "rejected" /\ reason[inv] = UnlinkError
        /\ outcome[inv].upload = "failed" =>
             /\ started[inv].unlink = 1
             /\ pc[inv] = "rejected" => reason[inv] = UnlinkError

\* A failed upload has been followed by the delete, whose failure rejected the
\* invocation.
C15_Witness ==
    \E inv \in Invocations :
        /\ outcome[inv].upload = "failed"
        /\ outcome[inv].unlink = "failed"
        /\ pc[inv] = "rejected"

\* ---- C16: a translate call that never settles ----

C17_RequestLinesAlignWithTexts ==
    \A inv \in Invocations :
        content[inv] # NoContent =>
            LET sentences    == content[inv].sentences
                requestLines == content[inv].requestLines
                texts        == Filtered(sentences)
                sent         == ConcatResults(calls[inv])
            IN  /\ \A i \in DOMAIN requestLines :
                     /\ requestLines[i] \in 0..(Len(sentences) - 1)
                     /\ i > 1 => requestLines[i - 1] < requestLines[i]
                     /\ ~ REGEX_INDEX_LINE(sentences[requestLines[i] + 1])
                     /\ ~ REGEX_TIMESTAMP_LINE(sentences[requestLines[i] + 1])
                     /\ sentences[requestLines[i] + 1] # <<>>
                /\ Len(texts) = Len(requestLines)
                /\ Len(sent) = Len(requestLines)
                /\ \A i \in DOMAIN requestLines :
                     /\ texts[i] = sentences[requestLines[i] + 1]
                     /\ sent[i] = sentences[requestLines[i] + 1]

\* Two texts with a line that is not a text between them: the recorded
\* positions are 0 and 2.
C17_Witness ==
    \E inv \in Invocations :
        /\ content[inv].requestLines = <<0, 2>>
        /\ Len(ConcatResults(calls[inv])) = 2

\* ---- C18: nothing is tried twice ----

Stages == {"download", "write", "upload", "unlink"}

\* C18: no operation is retried: the download, the local write, the upload and
\* the local delete are each started at most once per invocation, exactly once
\* when they have settled, also when they have failed, and every text is sent
\* in exactly one translate call, also after a call has failed.
C18_NothingStartedTwice ==
    \A inv \in Invocations :
        /\ \A op \in Stages :
             /\ started[inv][op] \in {0, 1}
             /\ outcome[inv][op] # "none" => started[inv][op] = 1
        /\ Len(ConcatResults(calls[inv])) = Len(content[inv].requestLines)
        /\ Len(promises[inv]) = Len(calls[inv])
        /\ NumSettled(promises[inv]) <= Len(calls[inv])

\* A download, two translate calls and a write have failed or succeeded once,
\* and the invocation has ended with the failed write.
C18_Witness ==
    \E inv \in Invocations :
        /\ outcome[inv].write = "failed"
        /\ Len(calls[inv]) >= 2
        /\ started[inv] = [download |-> 1, write |-> 1, upload |-> 0, unlink |-> 0]
        /\ pc[inv] = "rejected"

\* ---- C19: every invocation ends, in one way ----

\* C19: when every external call eventually settles, the invocation for an
\* event that names a file eventually reaches a terminal outcome and keeps it:
\* its promise ends resolved, or it ends rejected, never both.
C19_EndsResolvedOrRejected ==
    events[1].name # Undefined =>
        \/ <>[](pc[1] = "resolved")
        \/ <>[](pc[1] = "rejected")

\* An invocation with three translate calls has resolved.
C19_Witness ==
    /\ events[1].name # Undefined
    /\ Len(calls[1]) = 3
    /\ NumSettled(promises[1]) = 3
    /\ pc[1] = "resolved"

\* ---- C20: a file without any text line ----

\* C20: for a non-empty download that holds no line to translate, no translate
\* call is issued, the translation phase succeeds at once (the write is
\* started), and what is written and uploaded is identical to the input.
C20_NothingToTranslate ==
    \A inv \in Invocations :
        /\ outcome[inv].download = "data"
        /\ UsableData(Downloaded(inv))
        /\ \A k \in DOMAIN content[inv].sentences :
             \/ REGEX_INDEX_LINE(content[inv].sentences[k])
             \/ REGEX_TIMESTAMP_LINE(content[inv].sentences[k])
             \/ content[inv].sentences[k] = <<>>
        => /\ calls[inv] = <<>> /\ promises[inv] = <<>>
           /\ pc[inv] \notin {"translate"}
           /\ started[inv].write = 1
           /\ Join(content[inv].output) = Downloaded(inv)
           /\ outcome[inv].write = "ok" =>
                /\ started[inv].upload = 1
                /\ pc[inv] \in {"upload", "unlink"} =>
                     localFiles[localFilename(events[inv].name)] = Downloaded(inv)
           /\ outcome[inv].upload = "ok" => uploaded[inv] = <<Downloaded(inv)>>

\* An index line, a timestamp line and an empty line have been uploaded as
\* they were downloaded.
C20_Witness ==
    \E inv \in Invocations :
        /\ content[inv].sentences = <<IndexLine, TimestampLine, BlankLine>>
        /\ calls[inv] = <<>>
        /\ uploaded[inv] = <<Downloaded(inv)>>
        /\ pc[inv] = "resolved"

====
